---- MODULE Spec2Model ----
(***************************************************************************)
(* Model of the job orchestration core of backend/services/veo_service.py: *)
(* VeoService.generate_video, the background task _run_veo_job and its     *)
(* worker-thread body _run_veo_sync, get_job and cleanup_old_jobs.         *)
(*                                                                         *)
(* Strings are sequences of words, so that str.lower(), the substring test *)
(* and the f-string that builds an exception message are computed.         *)
(* The worker thread's writes to a job record are separate steps (a reader *)
(* or a sweep may run between any two of them); the computations of the    *)
(* worker that touch no shared state (the candidate loop, the poll loop)   *)
(* are one step each, computed by recursive operators that follow the      *)
(* loops of the code.                                                      *)
(***************************************************************************)
EXTENDS Integers, Sequences, FiniteSets, TLC

\* ------------------------------------------------------------------ bounds
MaxJobs == 1
MaxTime == 1

JobIds == 1..MaxJobs
Times == 0..MaxTime

\* ------------------------------------------------------- program constants
max_polls == 42
poll_interval == 10

veo_models == <<"veo-3.1-generate-preview", "veo-3.0-generate-001", "veo-2.0-generate-001">>

\* ------------------------------------------------------------------ strings
\* Python's None, for the Optional[str] fields and locals.
None == <<"<None>">>

Lower(w) ==
    CASE w = "Billing" -> "billing"
      [] w = "Enabled" -> "enabled"
      [] w = "RESOURCE_EXHAUSTED" -> "resource_exhausted"
      [] w = "FAILED_PRECONDITION" -> "failed_precondition"
      [] OTHER -> w

lower(s) == [i \in 1..Len(s) |-> Lower(s[i])]

\* sub in s
Contains(s, sub) ==
    \E i \in 0..(Len(s) - Len(sub)) :
        \A k \in 1..Len(sub) : s[i + k] = sub[k]

\* (x or "")
OrEmpty(x) == IF x = None \/ x = <<>> THEN <<>> ELSE x

BILLING_ENABLED == <<"billing", "enabled">>

\* Messages the backend raises when a generation call fails.
QuotaMsg == <<"RESOURCE_EXHAUSTED", "quota", "exceeded">>
BillingMsg == <<"FAILED_PRECONDITION", "Billing", "Enabled", "required">>
NearBillingMsg == <<"billing", "not", "enabled">>
StartErrMsgs == {QuotaMsg, BillingMsg, NearBillingMsg}

\* Messages of the other backend and storage calls.
PollErrMsg == <<"operations.get", "failed">>
DownloadErrMsg == <<"files.download", "failed">>
SaveErrMsg == <<"video.save", "failed">>

ExhaustedMsg(last) ==
    <<"No", "Veo", "model", "available", "or", "all", "failed.", "Last", "error:">> \o last
TimedOutMsg == <<"Veo", "operation", "timed", "out">>
NoVideosMsg == <<"Veo", "returned", "no", "videos">>
BillingNote == <<"Note:", "Real", "video", "generation", "requires", "GCP", "billing.">>

\* ------------------------------------------------------------------ values
NoUrl == [kind |-> "none", id |-> 0]
MOCK_VIDEO_URL == [kind |-> "mock", id |-> 0]
JobUrl(j) == [kind |-> "api", id |-> j]

NoPath == 0
OutPath(j) == j

NoOperation == [some |-> FALSE, model |-> "", done |-> FALSE, response |-> "none"]
Handle(m, d, r) == [some |-> TRUE, model |-> m, done |-> d, response |-> r]

\* <<done, response>> of a handle. What generate_videos returns is pending, or
\* already done with videos; a refresh can also come back done with no
\* response, or with a response that holds no videos.
StartStates == {<<FALSE, "none">>, <<TRUE, "videos">>}
DoneStates == {<<TRUE, "none">>, <<TRUE, "empty">>, <<TRUE, "videos">>}

VeoJob(t) ==
    [status |-> "generating", video_url |-> NoUrl, video_path |-> NoPath,
     error |-> None, notes |-> None, created_at |-> t]

NoJob ==
    [status |-> "unborn", video_url |-> NoUrl, video_path |-> NoPath,
     error |-> None, notes |-> None, created_at |-> 0]

\* ---------------------------------------------------------- FieldAnalytics
\* Of a FieldAnalytics, the fields whose values the analysis decides. `ref`
\* tells which object a value is: "MOCK_ANALYTICS" is the one module-level
\* object (lines 57-76), every holder of it sees the same object, and its
\* `notes` are read through the variable mock_notes; "own" is an object built
\* by the call that returned it; "none" stands for an analytics argument that
\* no analyze_image call produced.
MockNotes == <<"Mock", "analytics", "add", "GEMINI_API_KEY">>
ErrorNotes(msg) == <<"Using", "mock", "data", "due", "to", "analysis", "error:">> \o msg
RemoteNotes == <<"remote", "observation">>

FieldAnalytics(risk, sust, notes) ==
    [ref |-> "own", risk_score |-> risk, sustainability_score |-> sust,
     is_mock |-> FALSE, notes |-> notes]

MOCK_ANALYTICS ==
    [ref |-> "MOCK_ANALYTICS", risk_score |-> 28, sustainability_score |-> 74,
     is_mock |-> TRUE, notes |-> MockNotes]

NoAnalytics ==
    [ref |-> "none", risk_score |-> 0, sustainability_score |-> 0,
     is_mock |-> FALSE, notes |-> <<>>]

VARIABLES
    now,         \* time.time()
    api_key,     \* settings.gemini_api_key is set
    client,      \* self._client is not None
    jobs,        \* keys of self._jobs
    nextId,      \* the next fresh job id (uuid4)
    job,         \* the VeoJob objects, by id
    returned,    \* second component of what generate_video returned
    pc,          \* position of each job's background task
    operation,   \* local of _run_veo_sync
    last_error,  \* local of _run_veo_sync
    attempts,    \* the generate_videos calls of the candidate loop, in order, and how each ended
    polls,       \* refreshes and seconds slept by the poll loop
    exc,         \* str() of the exception travelling to _run_veo_job's handler
    files,       \* job ids whose <VIDEO_DIR>/<job_id>.mp4 exists
    cause,       \* history: the branch the task took
    lastRaised,  \* history: what the last candidate raised, if every candidate raised
    startRaised, \* history: some generate_videos call of the job raised
    anyBilling,  \* history: no candidate returned and some candidate raised a billing message
    swept,       \* how the last cleanup_old_jobs call ended
    mock_notes,  \* MOCK_ANALYTICS.notes, the one field of the module-level object that is written
    analysis,    \* what the last analyze_image call returned
    genuine,     \* history: the last analyze_image call got a response of a model and parsed it
    analytics    \* job.analytics of each VeoJob: the object generate_video was given

vars == <<now, api_key, client, jobs, nextId, job, returned, pc, operation, last_error,
          attempts, polls, exc, files, cause, lastRaised, startRaised, anyBilling, swept,
          mock_notes, analysis, genuine, analytics>>

envVars == <<now, api_key>>
storeVars == <<jobs, nextId, returned, analytics>>
analysisVars == <<mock_notes, analysis, genuine>>
localVars == <<operation, last_error, attempts, polls, exc>>
histVars == <<cause, lastRaised, startRaised, anyBilling, swept>>

NoPolls == [refreshes |-> 0, slept |-> 0]

Terminal(s) == s \in {"ready", "error"}

Init ==
    /\ now = 0
    /\ api_key \in BOOLEAN
    /\ client = FALSE
    /\ jobs = {}
    /\ nextId = 1
    /\ job = [j \in JobIds |-> NoJob]
    /\ returned = [j \in JobIds |-> NoUrl]
    /\ pc = [j \in JobIds |-> "unborn"]
    /\ operation = [j \in JobIds |-> NoOperation]
    /\ last_error = [j \in JobIds |-> None]
    /\ attempts = [j \in JobIds |-> <<>>]
    /\ polls = [j \in JobIds |-> NoPolls]
    /\ exc = [j \in JobIds |-> None]
    /\ files = {}
    /\ cause = [j \in JobIds |-> "none"]
    /\ lastRaised = [j \in JobIds |-> None]
    /\ startRaised = [j \in JobIds |-> FALSE]
    /\ anyBilling = [j \in JobIds |-> FALSE]
    /\ swept = "never"
    /\ mock_notes = MockNotes
    /\ analysis = NoAnalytics
    /\ genuine = FALSE
    /\ analytics = [j \in JobIds |-> NoAnalytics]

\* ---------------------------------------------------------- _get_client
\* What building the client can do when there is a key and no cached client.
ClientOutcomes == {"ok", "import_error", "init_error"}

\* [present |-> a client is returned, cached |-> self._client afterwards]
_get_client(cached, key, outcome) ==
    IF cached THEN [present |-> TRUE, cached |-> TRUE]
    ELSE IF ~key THEN [present |-> FALSE, cached |-> FALSE]
    ELSE IF outcome = "ok" THEN [present |-> TRUE, cached |-> TRUE]
    ELSE [present |-> FALSE, cached |-> FALSE]

\* ---------------------------------------------------------- generate_video
\* Variant: the `if client is None` branch is missing, the task is always
\* scheduled.
generate_video_always_schedules(outcome) ==
    /\ nextId <= MaxJobs
    /\ LET j == nextId
           got == _get_client(client, api_key, outcome)
       IN  /\ nextId' = nextId + 1
           /\ jobs' = jobs \cup {j}
           /\ client' = got.cached
           /\ analytics' = [analytics EXCEPT ![j] = analysis]
           /\ job' = [job EXCEPT ![j] = VeoJob(now)]
           /\ returned' = [returned EXCEPT ![j] = NoUrl]
           /\ pc' = [pc EXCEPT ![j] = "scheduled"]
    /\ UNCHANGED <<envVars, analysisVars, localVars, files, histVars>>

\* Variant: the first generation call is made inside generate_video, before it
\* returns.
generate_video_starts_inline(outcome) ==
    /\ nextId <= MaxJobs
    /\ LET j == nextId
           got == _get_client(client, api_key, outcome)
       IN  /\ nextId' = nextId + 1
           /\ jobs' = jobs \cup {j}
           /\ client' = got.cached
           /\ analytics' = [analytics EXCEPT ![j] = analysis]
           /\ IF ~got.present
              THEN /\ job' = [job EXCEPT ![j] =
                         [VeoJob(now) EXCEPT !.status = "ready", !.video_url = MOCK_VIDEO_URL]]
                   /\ returned' = [returned EXCEPT ![j] = MOCK_VIDEO_URL]
                   /\ pc' = [pc EXCEPT ![j] = "instant"]
                   /\ cause' = [cause EXCEPT ![j] = "mock"]
                   /\ UNCHANGED <<operation, attempts>>
              ELSE /\ job' = [job EXCEPT ![j] = VeoJob(now)]
                   /\ returned' = [returned EXCEPT ![j] = NoUrl]
                   /\ pc' = [pc EXCEPT ![j] = "poll"]
                   /\ cause' = cause
                   /\ operation' = [operation EXCEPT ![j] = Handle(veo_models[1], FALSE, "none")]
                   /\ attempts' = [attempts EXCEPT ![j] =
                          <<[model |-> veo_models[1], raised |-> FALSE]>>]
    /\ UNCHANGED <<envVars, analysisVars, last_error, polls, exc, files, lastRaised, startRaised, anyBilling, swept>>

\* lines 231-246. The record is stored 'generating' (line 233) and, with no
\* client, set 'ready' before the call returns; the call has no await, so no
\* other step of the program runs in between.
generate_video(outcome) ==
    /\ nextId <= MaxJobs
    /\ LET j == nextId
           got == _get_client(client, api_key, outcome)
       IN  /\ nextId' = nextId + 1
           /\ jobs' = jobs \cup {j}
           /\ client' = got.cached
           /\ analytics' = [analytics EXCEPT ![j] = analysis]
           /\ IF ~got.present
              THEN /\ job' = [job EXCEPT ![j] =
                         [VeoJob(now) EXCEPT !.status = "ready", !.video_url = MOCK_VIDEO_URL]]
                   /\ returned' = [returned EXCEPT ![j] = MOCK_VIDEO_URL]
                   /\ pc' = [pc EXCEPT ![j] = "instant"]
                   /\ cause' = [cause EXCEPT ![j] = "mock"]
              ELSE /\ job' = [job EXCEPT ![j] = VeoJob(now)]
                   /\ returned' = [returned EXCEPT ![j] = NoUrl]
                   /\ pc' = [pc EXCEPT ![j] = "scheduled"]
                   /\ cause' = cause
    /\ UNCHANGED <<envVars, analysisVars, localVars, files, lastRaised, startRaised, anyBilling, swept>>

\* ------------------------------------------------------------ analyze_image
analysis_models == <<"gemini-2.0-flash-lite", "gemini-2.5-flash", "gemini-flash-latest">>

\* Messages of the exceptions of an analysis.
AnalysisQuotaMsg == <<"429", "RESOURCE_EXHAUSTED">>
AnalysisDownMsg == <<"503", "UNAVAILABLE">>
AnalysisErrMsgs == {AnalysisQuotaMsg, AnalysisDownMsg}
AllFailedMsg == <<"All", "analysis", "models", "failed">>
NoTextMsg == <<"'NoneType'", "object", "has", "no", "attribute", "'strip'">>
JsonErrMsg == <<"Expecting", "value">>
NotObjectMsg == <<"'list'", "object", "has", "no", "attribute", "'get'">>
IntErrMsg == <<"invalid", "literal", "for", "int()">>

\* What one generate_content call can do: raise, return something falsy, or
\* return a response.
ContentAnswers ==
    [kind : {"raises"}, msg : AnalysisErrMsgs] \cup [kind : {"falsy", "response"}, msg : {None}]

\* The answers of the backend to the calls of one model loop, one per model.
\* An answer that follows a response is never asked for; it is fixed.
AnalysisScripts ==
    {s \in [1..Len(analysis_models) -> ContentAnswers] :
        \A i \in 1..Len(analysis_models) :
            (\E k \in 1..(i - 1) : s[k].kind = "response")
                => s[i] = [kind |-> "response", msg |-> None]}

\* A score as the remote model wrote it: an integer, not there, or something
\* int() does not take.
RiskInts == {-5, 100, 150}
SustInts == {0, 101}
ScoreValues(ints) ==
    [kind : {"int"}, v : ints] \cup [kind : {"missing", "text"}, v : {0}]

\* response.text: nothing, or a text, inside markdown fences or not, that is
\* no JSON, a JSON array, or a JSON object with the two scores.
ResponseTexts ==
    [fenced : BOOLEAN, body : {"absent", "garbage", "array"},
     risk : {[kind |-> "missing", v |-> 0]}, sust : {[kind |-> "missing", v |-> 0]}]
        \cup [fenced : BOOLEAN, body : {"object"},
              risk : ScoreValues(RiskInts), sust : ScoreValues(SustInts)]

\* lines 172-187: the loop over analysis_models, from model i on.
\* acc = [response |-> a truthy response is held, last_analysis_error |-> ...]
RECURSIVE ContentLoop(_, _, _)
ContentLoop(i, acc, answers) ==
    IF i > Len(analysis_models) THEN acc
    ELSE CASE answers[i].kind = "raises" ->
                  ContentLoop(i + 1, [acc EXCEPT !.last_analysis_error = answers[i].msg], answers)
           [] answers[i].kind = "falsy" ->
                  ContentLoop(i + 1, [acc EXCEPT !.response = FALSE], answers)
           [] OTHER -> [acc EXCEPT !.response = TRUE]

\* lines 194-197: the text between the first pair of fences, without a
\* leading "json".
StripFences(text) == [text EXCEPT !.fenced = FALSE]

\* int(data.get(key, default))
IntOf(x, default) ==
    CASE x.kind = "missing" -> [raises |-> FALSE, v |-> default]
      [] x.kind = "int" -> [raises |-> FALSE, v |-> x.v]
      [] OTHER -> [raises |-> TRUE, v |-> 0]

\* lines 192-212: response.text.strip(), the fences, json.loads and the
\* FieldAnalytics built from the parsed object.
Parse(text) ==
    LET raw == StripFences(text)
        risk == IntOf(raw.risk, 30)
        sust == IntOf(raw.sust, 65)
        Raise(msg) == [raises |-> TRUE, msg |-> msg, value |-> NoAnalytics]
    IN  CASE text.body = "absent" -> Raise(NoTextMsg)
          [] raw.fenced \/ raw.body = "garbage" -> Raise(JsonErrMsg)
          [] raw.body = "array" -> Raise(NotObjectMsg)
          [] risk.raises \/ sust.raises -> Raise(IntErrMsg)
          [] OTHER -> [raises |-> FALSE, msg |-> None,
                       value |-> FieldAnalytics(risk.v, sust.v, RemoteNotes)]

\* Variant: the handler returns a default-constructed FieldAnalytics instead
\* of the substitute.
AnalysisFailed_fresh_default(msg) ==
    [value |-> FieldAnalytics(0, 0, ErrorNotes(msg)), writes |-> FALSE, mock_notes |-> <<>>]

\* lines 213-217: the handler of the analysis. It writes the notes of the
\* module-level object and returns that object.
AnalysisFailed(msg) ==
    [value |-> MOCK_ANALYTICS, writes |-> TRUE, mock_notes |-> ErrorNotes(msg)]

\* lines 162-217, the try block and its handler: [value |-> what is returned,
\* writes |-> MOCK_ANALYTICS.notes is assigned, mock_notes |-> what it is
\* assigned]
Analyse(answers, text) ==
    LET loop == ContentLoop(1, [response |-> FALSE, last_analysis_error |-> None], answers)
        parsed == Parse(text)
    IN  IF ~loop.response
        THEN AnalysisFailed(IF loop.last_analysis_error # None
                            THEN loop.last_analysis_error ELSE AllFailedMsg)
        ELSE IF parsed.raises THEN AnalysisFailed(parsed.msg)
        ELSE [value |-> parsed.value, writes |-> FALSE, mock_notes |-> <<>>]

\* The runs of the try block for every behaviour of the backend, each with
\* what the backend did: some model responded, and the text could be parsed
\* into the fields.
AnalysisRuns ==
    {[responded |-> \E i \in 1..Len(analysis_models) : answers[i].kind = "response",
      parsed |-> /\ text.body = "object"
                 /\ text.risk.kind # "text"
                 /\ text.sust.kind # "text",
      after |-> Analyse(answers, text)] :
        answers \in AnalysisScripts, text \in ResponseTexts}

\* lines 138-217. [cached |-> self._client afterwards, value |-> what is
\* returned, mock_notes |-> MOCK_ANALYTICS.notes afterwards]
_analyze_image_sync(cached, key, notes, outcome, run) ==
    LET got == _get_client(cached, key, outcome)
    IN  IF ~got.present
        THEN [cached |-> got.cached, value |-> MOCK_ANALYTICS, mock_notes |-> notes]
        ELSE [cached |-> got.cached, value |-> run.after.value,
              mock_notes |-> IF run.after.writes THEN run.after.mock_notes ELSE notes]

\* lines 121-130. The worker thread's body shares with the rest of the
\* program the cached client and MOCK_ANALYTICS.notes; it writes each at most
\* once, and the call is one step. `genuine` records, from what the backend
\* did, whether a model responded and its response was parsed.
analyze_image(outcome, run) ==
    /\ \E r \in {_analyze_image_sync(client, api_key, mock_notes, outcome, run)} :
           /\ client' = r.cached
           /\ analysis' = r.value
           /\ mock_notes' = r.mock_notes
    /\ genuine' = /\ _get_client(client, api_key, outcome).present
                  /\ run.responded
                  /\ run.parsed
    /\ UNCHANGED <<envVars, storeVars, job, pc, localVars, files, histVars>>

\* The fields a holder of the object `a` reads.
Fields(a) == IF a.ref = "MOCK_ANALYTICS" THEN [a EXCEPT !.notes = mock_notes] ELSE a

\* ------------------------------------------- _run_veo_sync: candidate loop
\* What one generate_videos call can do: raise, or return a handle.
StartAnswers ==
    [raises : {TRUE}, msg : StartErrMsgs, hs : {<<FALSE, "none">>}]
        \cup [raises : {FALSE}, msg : {None}, hs : StartStates]

\* The answers of the backend to the calls of one candidate loop, one per
\* candidate. An answer that follows a success is never asked for by the loop;
\* it is fixed, to a handle.
Unasked == [raises |-> FALSE, msg |-> None, hs |-> <<FALSE, "none">>]

StartScripts ==
    {a \in [1..Len(veo_models) -> StartAnswers] :
        \A i \in 1..Len(veo_models) :
            (\E k \in 1..(i - 1) : ~a[k].raises) => a[i] = Unasked}

LoopStart == [operation |-> NoOperation, last_error |-> None, attempts |-> <<>>]

\* Variant: the first error is kept instead of the last.
AttemptFailed_keeps_first(acc, model, msg) ==
    [operation |-> NoOperation,
     last_error |-> IF acc.last_error = None THEN msg ELSE acc.last_error,
     attempts |-> Append(acc.attempts, [model |-> model, raised |-> TRUE])]

\* except Exception as exc: last_error = str(exc); operation = None
AttemptFailed(acc, model, msg) ==
    [operation |-> NoOperation, last_error |-> msg,
     attempts |-> Append(acc.attempts, [model |-> model, raised |-> TRUE])]

\* operation = client.models.generate_videos(model=model_name, ...)
AttemptStarted(acc, model, hs) ==
    [operation |-> Handle(model, hs[1], hs[2]), last_error |-> acc.last_error,
     attempts |-> Append(acc.attempts, [model |-> model, raised |-> FALSE])]

\* Variant: no `break` after a call that returned.
RECURSIVE CandidateLoop_no_break(_, _, _)
CandidateLoop_no_break(i, acc, answers) ==
    IF i > Len(veo_models) THEN acc
    ELSE IF answers[i].raises
         THEN CandidateLoop_no_break(i + 1,
                  AttemptFailed(acc, veo_models[i], answers[i].msg), answers)
         ELSE CandidateLoop_no_break(i + 1,
                  AttemptStarted(acc, veo_models[i], answers[i].hs), answers)

\* for model_name in veo_models: try ... break / except ...
RECURSIVE CandidateLoop(_, _, _)
CandidateLoop(i, acc, answers) ==
    IF i > Len(veo_models) THEN acc
    ELSE IF answers[i].raises
         THEN CandidateLoop(i + 1, AttemptFailed(acc, veo_models[i], answers[i].msg), answers)
         ELSE AttemptStarted(acc, veo_models[i], answers[i].hs)

\* Variant: the test without .lower().
IsBilling_case_sensitive(err) == Contains(OrEmpty(err), BILLING_ENABLED)

\* "billing enabled" in (last_error or "").lower()
IsBilling(err) == Contains(lower(OrEmpty(err)), BILLING_ENABLED)

\* Every way the candidate loop can run: the backend's answers and what the
\* loop leaves in its locals.
ResolveRuns ==
    {[answers |-> a, result |-> CandidateLoop(1, LoopStart, a)] : a \in StartScripts}

\* lines 292-320: the candidate loop and the check of its result
Resolve(j) ==
    /\ pc[j] = "scheduled"
    /\ \E run \in ResolveRuns :
         LET r == run.result
             answers == run.answers
         IN  /\ attempts' = [attempts EXCEPT ![j] = r.attempts]
             /\ startRaised' = [startRaised EXCEPT ![j] =
                    \E i \in 1..Len(r.attempts) : r.attempts[i].raised]
             /\ anyBilling' = [anyBilling EXCEPT ![j] =
                    /\ \A i \in 1..Len(veo_models) : answers[i].raises
                    /\ \E i \in 1..Len(veo_models) :
                          Contains(lower(answers[i].msg), BILLING_ENABLED)]
             /\ operation' = [operation EXCEPT ![j] = r.operation]
             /\ IF ~r.operation.some
                THEN /\ lastRaised' = [lastRaised EXCEPT ![j] = answers[Len(veo_models)].msg]
                     /\ IF IsBilling(r.last_error)
                        THEN /\ pc' = [pc EXCEPT ![j] = "bill_url"]
                             /\ last_error' = [last_error EXCEPT ![j] = r.last_error]
                             /\ exc' = exc
                             /\ cause' = [cause EXCEPT ![j] = "billing"]
                        ELSE /\ pc' = [pc EXCEPT ![j] = "exc_status"]
                             /\ last_error' = [last_error EXCEPT ![j] = r.last_error]
                             /\ exc' = [exc EXCEPT ![j] = ExhaustedMsg(r.last_error)]
                             /\ cause' = [cause EXCEPT ![j] = "exhausted"]
                ELSE /\ pc' = [pc EXCEPT ![j] = "poll"]
                     /\ last_error' = last_error
                     /\ UNCHANGED <<exc, cause, lastRaised>>
    /\ UNCHANGED <<envVars, analysisVars, client, storeVars, job, polls, files, swept>>

\* The locals of _run_veo_sync that are read no more.
DropLocals(j) ==
    /\ operation' = [operation EXCEPT ![j] = NoOperation]
    /\ last_error' = [last_error EXCEPT ![j] = None]
    /\ attempts' = [attempts EXCEPT ![j] = <<>>]
    /\ polls' = [polls EXCEPT ![j] = NoPolls]

\* ------------------------------------------------ billing branch (313-319)
\* job.video_url = MOCK_VIDEO_URL
BillUrl(j) ==
    /\ pc[j] = "bill_url"
    /\ job' = [job EXCEPT ![j].video_url = MOCK_VIDEO_URL]
    /\ pc' = [pc EXCEPT ![j] = "bill_status"]
    /\ UNCHANGED <<envVars, analysisVars, client, storeVars, localVars, files, histVars>>

\* job.status = "ready"
BillStatus(j) ==
    /\ pc[j] = "bill_status"
    /\ job' = [job EXCEPT ![j].status = "ready"]
    /\ pc' = [pc EXCEPT ![j] = "bill_notes"]
    /\ UNCHANGED <<envVars, analysisVars, client, storeVars, localVars, files, histVars>>

\* Variant: the record takes no attribute `notes` (VeoJob declares none), the
\* assignment raises and the handler of _run_veo_job runs.
BillNotes_raises(j) ==
    /\ pc[j] = "bill_notes"
    /\ pc' = [pc EXCEPT ![j] = "exc_status"]
    /\ exc' = [exc EXCEPT ![j] = <<"AttributeError:", "notes">>]
    /\ UNCHANGED <<envVars, analysisVars, client, storeVars, job, operation, last_error, attempts,
                   polls, files, histVars>>

\* job.notes = "Note: ..."; return
BillNotes(j) ==
    /\ pc[j] = "bill_notes"
    /\ job' = [job EXCEPT ![j].notes = BillingNote]
    /\ pc' = [pc EXCEPT ![j] = "done"]
    /\ DropLocals(j)
    /\ UNCHANGED <<envVars, analysisVars, client, storeVars, exc, files, histVars>>

\* ------------------------------------------------ _run_veo_sync: poll loop
\* The backend seen by one poll loop: every refresh before the k-th returns a
\* pending handle, the k-th returns or raises `final`.
RefreshFinals ==
    [raises : {TRUE}, hs : {<<FALSE, "none">>}] \cup [raises : {FALSE}, hs : DoneStates]

PollPoints == {1, max_polls, max_polls + 1}

\* operation = client.operations.get(operation), the n-th of the loop
Refresh(op, n, k, final) ==
    IF n < k THEN [raises |-> FALSE, op |-> Handle(op.model, FALSE, "none")]
    ELSE [raises |-> final.raises, op |-> Handle(op.model, final.hs[1], final.hs[2])]

PollStart(op) ==
    [op |-> op, refreshes |-> 0, slept |-> 0, raised |-> FALSE, stopped |-> FALSE]

\* Variant: the refresh comes first, the test of operation.done after it.
PollBody_refresh_first(st, k, final) ==
    IF st.stopped THEN st
    ELSE LET r == Refresh(st.op, st.refreshes + 1, k, final)
         IN  IF r.raises
             THEN [st EXCEPT !.refreshes = @ + 1, !.slept = @ + poll_interval,
                             !.raised = TRUE, !.stopped = TRUE]
             ELSE [st EXCEPT !.refreshes = @ + 1, !.slept = @ + poll_interval,
                             !.op = r.op, !.stopped = r.op.done]

\* The body of the loop, run once:
\*   if operation.done: break
\*   time.sleep(10)
\*   operation = client.operations.get(operation)
\* (no body runs after a break or a raise).
PollBody(st, k, final) ==
    IF st.stopped THEN st
    ELSE IF st.op.done THEN [st EXCEPT !.stopped = TRUE]
    ELSE LET r == Refresh(st.op, st.refreshes + 1, k, final)
         IN  IF r.raises
             THEN [st EXCEPT !.refreshes = @ + 1, !.slept = @ + poll_interval,
                             !.raised = TRUE, !.stopped = TRUE]
             ELSE [st EXCEPT !.refreshes = @ + 1, !.slept = @ + poll_interval,
                             !.op = r.op]

\* The iterations lo..hi of the loop, in order (split in halves, to keep the
\* evaluation shallow).
RECURSIVE PollRange(_, _, _, _, _)
PollRange(st, lo, hi, k, final) ==
    IF lo > hi THEN st
    ELSE IF lo = hi THEN PollBody(st, k, final)
    ELSE LET mid == (lo + hi) \div 2
         IN  CHOOSE out \in {PollRange(half, mid + 1, hi, k, final) :
                                half \in {PollRange(st, lo, mid, k, final)}} : TRUE

\* Variant: one iteration short.
PollLoop_one_short(op, k, final) == PollRange(PollStart(op), 1, max_polls - 1, k, final)

\* for _ in range(max_polls): ...
PollLoop(op, k, final) == PollRange(PollStart(op), 1, max_polls, k, final)

\* if not operation.done or not operation.response: raise RuntimeError(...)
TimedOut(op) == ~op.done \/ op.response = "none"

\* Variant: the emptiness check is missing.
NoVideos_unchecked(op) == FALSE

\* if not generated: raise RuntimeError("Veo returned no videos")
NoVideos(op) == op.response = "empty"

\* Every way the poll loop can run, for each handle the candidate loop can
\* leave.
StartHandles ==
    {Handle(veo_models[i], hs[1], hs[2]) : i \in 1..Len(veo_models), hs \in StartStates}

PollRuns ==
    [op \in StartHandles |->
        {PollLoop(op, doneAt, answer) : doneAt \in PollPoints, answer \in RefreshFinals}]

\* The poll loop's result for a handle, the refresh at which the backend stops
\* answering 'pending', and what it answers then.
PollTable ==
    {[op |-> op, doneAt |-> doneAt, answer |-> answer, result |-> PollLoop(op, doneAt, answer)] :
        op \in StartHandles, doneAt \in PollPoints, answer \in RefreshFinals}

\* lines 322-336: the poll loop and the two checks of its result
Poll(j) ==
    /\ pc[j] = "poll"
    /\ \E r \in PollRuns[operation[j]] :
              /\ polls' = [polls EXCEPT ![j] = [refreshes |-> r.refreshes, slept |-> r.slept]]
             /\ operation' = [operation EXCEPT ![j] = r.op]
             /\ IF r.raised
                THEN /\ pc' = [pc EXCEPT ![j] = "exc_status"]
                     /\ exc' = [exc EXCEPT ![j] = PollErrMsg]
                     /\ cause' = [cause EXCEPT ![j] = "poll_raised"]
                ELSE IF TimedOut(r.op)
                THEN /\ pc' = [pc EXCEPT ![j] = "exc_status"]
                     /\ exc' = [exc EXCEPT ![j] = TimedOutMsg]
                     /\ cause' = [cause EXCEPT ![j] =
                            IF r.op.done THEN "no_response" ELSE "timeout"]
                ELSE IF NoVideos(r.op)
                THEN /\ pc' = [pc EXCEPT ![j] = "exc_status"]
                     /\ exc' = [exc EXCEPT ![j] = NoVideosMsg]
                     /\ cause' = [cause EXCEPT ![j] = "no_videos"]
                ELSE /\ pc' = [pc EXCEPT ![j] = "save"]
                     /\ UNCHANGED <<exc, cause>>
    /\ UNCHANGED <<envVars, analysisVars, client, storeVars, job, last_error, attempts, files, lastRaised,
                   startRaised, anyBilling, swept>>

\* ------------------------------------------- download, save, success writes
\* Variant: video_file.save(out_path) is missing.
Save_not_saved(j) ==
    /\ pc[j] = "save"
    /\ \/ /\ pc' = [pc EXCEPT ![j] = "exc_status"]
          /\ exc' = [exc EXCEPT ![j] = DownloadErrMsg]
          /\ cause' = [cause EXCEPT ![j] = "download_raised"]
       \/ /\ pc' = [pc EXCEPT ![j] = "set_path"]
          /\ exc' = exc
          /\ cause' = [cause EXCEPT ![j] = "downloaded"]
    /\ files' = files
    /\ DropLocals(j)
    /\ UNCHANGED <<envVars, analysisVars, client, storeVars, job, lastRaised, startRaised, anyBilling, swept>>

\* client.files.download(file=video_file); video_file.save(out_path)
Save(j) ==
    /\ pc[j] = "save"
    /\ \/ /\ pc' = [pc EXCEPT ![j] = "exc_status"]
          /\ exc' = [exc EXCEPT ![j] = DownloadErrMsg]
          /\ cause' = [cause EXCEPT ![j] = "download_raised"]
          /\ files' = files
       \/ /\ pc' = [pc EXCEPT ![j] = "exc_status"]
          /\ exc' = [exc EXCEPT ![j] = SaveErrMsg]
          /\ cause' = [cause EXCEPT ![j] = "save_raised"]
          /\ files' \in {files, files \cup {j}}
       \/ /\ pc' = [pc EXCEPT ![j] = "set_path"]
          /\ exc' = exc
          /\ cause' = [cause EXCEPT ![j] = "saved"]
          /\ files' = files \cup {j}
    /\ DropLocals(j)
    /\ UNCHANGED <<envVars, analysisVars, client, storeVars, job, lastRaised, startRaised, anyBilling, swept>>

\* job.video_path = out_path
SetPath(j) ==
    /\ pc[j] = "set_path"
    /\ job' = [job EXCEPT ![j].video_path = OutPath(j)]
    /\ pc' = [pc EXCEPT ![j] = "set_url"]
    /\ UNCHANGED <<envVars, analysisVars, client, storeVars, localVars, files, histVars>>

\* job.video_url = f"/api/field-vision/video/{job.job_id}"
SetUrl(j) ==
    /\ pc[j] = "set_url"
    /\ job' = [job EXCEPT ![j].video_url = JobUrl(j)]
    /\ pc' = [pc EXCEPT ![j] = "set_status"]
    /\ UNCHANGED <<envVars, analysisVars, client, storeVars, localVars, files, histVars>>

\* job.status = "ready"
SetStatus(j) ==
    /\ pc[j] = "set_status"
    /\ job' = [job EXCEPT ![j].status = "ready"]
    /\ pc' = [pc EXCEPT ![j] = "done"]
    /\ UNCHANGED <<envVars, analysisVars, client, storeVars, localVars, files, histVars>>

\* -------------------------------------- _run_veo_job: except Exception as exc
\* Variant: the handler does not set the status.
ExcStatus_keeps_status(j) ==
    /\ pc[j] = "exc_status"
    /\ pc' = [pc EXCEPT ![j] = "exc_error"]
    /\ DropLocals(j)
    /\ UNCHANGED <<envVars, analysisVars, client, storeVars, job, exc, files, histVars>>

\* job.status = "error"
ExcStatus(j) ==
    /\ pc[j] = "exc_status"
    /\ job' = [job EXCEPT ![j].status = "error"]
    /\ pc' = [pc EXCEPT ![j] = "exc_error"]
    /\ DropLocals(j)
    /\ UNCHANGED <<envVars, analysisVars, client, storeVars, exc, files, histVars>>

\* Variant: the handler does not record the message.
ExcError_no_message(j) ==
    /\ pc[j] = "exc_error"
    /\ pc' = [pc EXCEPT ![j] = "exc_url"]
    /\ UNCHANGED <<envVars, analysisVars, client, storeVars, job, localVars, files, histVars>>

\* job.error = str(exc)
ExcError(j) ==
    /\ pc[j] = "exc_error"
    /\ job' = [job EXCEPT ![j].error = exc[j]]
    /\ pc' = [pc EXCEPT ![j] = "exc_url"]
    /\ UNCHANGED <<envVars, analysisVars, client, storeVars, localVars, files, histVars>>

\* Variant: the handler attaches no locator.
ExcUrl_no_locator(j) ==
    /\ pc[j] = "exc_url"
    /\ pc' = [pc EXCEPT ![j] = "done"]
    /\ exc' = [exc EXCEPT ![j] = None]
    /\ UNCHANGED <<envVars, analysisVars, client, storeVars, job, operation, last_error, attempts,
                   polls, files, histVars>>

\* Variant: the handler also drops the failed job from the store.
ExcUrl_drops_entry(j) ==
    /\ pc[j] = "exc_url"
    /\ job' = [job EXCEPT ![j].video_url = MOCK_VIDEO_URL]
    /\ jobs' = jobs \ {j}
    /\ pc' = [pc EXCEPT ![j] = "done"]
    /\ exc' = [exc EXCEPT ![j] = None]
    /\ UNCHANGED <<envVars, analysisVars, client, nextId, returned, analytics, operation, last_error, attempts,
                   polls, files, histVars>>

\* job.video_url = MOCK_VIDEO_URL
ExcUrl(j) ==
    /\ pc[j] = "exc_url"
    /\ job' = [job EXCEPT ![j].video_url = MOCK_VIDEO_URL]
    /\ pc' = [pc EXCEPT ![j] = "done"]
    /\ exc' = [exc EXCEPT ![j] = None]
    /\ UNCHANGED <<envVars, analysisVars, client, storeVars, operation, last_error, attempts, polls,
                   files, histVars>>

\* One step of the background task of job j (worker thread or handler).
_run_veo_job(j) ==
    \/ Resolve(j)
    \/ BillUrl(j)
    \/ BillStatus(j)
    \/ BillNotes(j)
    \/ Poll(j)
    \/ Save(j)
    \/ SetPath(j)
    \/ SetUrl(j)
    \/ SetStatus(j)
    \/ ExcStatus(j)
    \/ ExcError(j)
    \/ ExcUrl(j)

\* ------------------------------------------------------------------ get_job
\* self._jobs.get(job_id): the record, or None
get_job(j) == IF j \in jobs THEN job[j] ELSE NoJob

\* Variant: the record is looked at without asking the store for it.
get_video_path_no_lookup(j) ==
    IF job[j].video_path # NoPath /\ job[j].video_path \in files
    THEN job[j].video_path
    ELSE NoPath

\* job.video_path if job and job.video_path and os.path.exists(job.video_path),
\* else None
get_video_path(j) ==
    IF j \in jobs /\ job[j].video_path # NoPath /\ job[j].video_path \in files
    THEN job[j].video_path
    ELSE NoPath

Usable(rec) == Terminal(rec.status) /\ rec.video_url # NoUrl

\* -------------------------------------------------------- cleanup_old_jobs
\* Variant: the age test is not strict.
Expired_not_strict(maxAge) == {j \in jobs : now - job[j].created_at >= maxAge}

\* expired = [jid for jid, job in self._jobs.items() if now - job.created_at > max_age_seconds]
Expired(maxAge) == {j \in jobs : now - job[j].created_at > maxAge}

\* job.video_path and os.path.exists(job.video_path)
HasFile(j) == job[j].video_path # NoPath /\ job[j].video_path \in files

\* What os.remove(job.video_path) can do: remove the file; raise OSError and
\* leave it (no permission, file in use); raise FileNotFoundError, an OSError,
\* because the file went away after the os.path.exists test.
RemoveOutcomes == {"removed", "denied", "gone"}

\* The expired records os.remove is called for.
Removals(maxAge) == {j \in Expired(maxAge) : HasFile(j)}

\* Variant: no try/except around os.remove. The records are swept in the order
\* of the dict, which is the order of their creation; the sweep ends at the
\* first os.remove that raises, after that record was popped.
cleanup_old_jobs_no_except(maxAge, rm) ==
    /\ Expired(maxAge) # {}
    /\ \A j \in JobIds \ Removals(maxAge) : rm[j] = "removed"
    /\ LET bad == {j \in Removals(maxAge) : rm[j] # "removed"}
           upTo == IF bad = {} THEN MaxJobs
                   ELSE CHOOSE j \in bad : \A i \in bad : j <= i
       IN  /\ jobs' = jobs \ {j \in Expired(maxAge) : j <= upTo}
           /\ files' = files \ {job[j].video_path :
                                   j \in {i \in Removals(maxAge) : i <= upTo /\ rm[i] # "denied"}}
           /\ swept' = IF bad = {} THEN "ok" ELSE "raised"
    /\ UNCHANGED <<envVars, analysisVars, client, nextId, returned, analytics, job, pc, localVars, cause,
                   lastRaised, startRaised, anyBilling>>

\* lines 363-376; rm[j] is what os.remove does for record j
cleanup_old_jobs(maxAge, rm) ==
    /\ Expired(maxAge) # {}
    /\ \A j \in JobIds \ Removals(maxAge) : rm[j] = "removed"
    /\ jobs' = jobs \ Expired(maxAge)
    /\ files' = files \ {job[j].video_path :
                            j \in {i \in Removals(maxAge) : rm[i] # "denied"}}
    /\ swept' = IF \E j \in Removals(maxAge) : rm[j] # "removed" THEN "oserror" ELSE "ok"
    /\ UNCHANGED <<envVars, analysisVars, client, nextId, returned, analytics, job, pc, localVars, cause,
                   lastRaised, startRaised, anyBilling>>

\* ------------------------------------------------------------- environment
Tick ==
    /\ now < MaxTime
    /\ now' = now + 1
    /\ UNCHANGED <<api_key, analysisVars, client, storeVars, job, pc, localVars, files, histVars>>

\* Somebody else removes an artifact from the temp directory.
FileVanishes(j) ==
    /\ j \in files
    /\ files' = files \ {j}
    /\ UNCHANGED <<envVars, analysisVars, client, storeVars, job, pc, localVars, histVars>>

Next ==
    \/ \E outcome \in ClientOutcomes : generate_video(outcome)
    \/ \E j \in JobIds : _run_veo_job(j)
    \/ \E maxAge \in Times, rm \in [JobIds -> RemoveOutcomes] : cleanup_old_jobs(maxAge, rm)
    \/ Tick
    \/ \E j \in JobIds : FileVanishes(j)

Spec == Init /\ [][Next]_vars

\* The event loop runs every task it was given and the worker thread runs on.
Fairness == \A j \in JobIds : WF_vars(_run_veo_job(j))

FairSpec == Spec /\ Fairness

\* The analysis half of the service with the submissions that capture its
\* results. It shares the cached client with the job half and nothing else.
AnalyticsNext ==
    \/ \E outcome \in ClientOutcomes, run \in AnalysisRuns : analyze_image(outcome, run)
    \/ \E outcome \in ClientOutcomes : generate_video(outcome)

AnalyticsSpec == Init /\ [][AnalyticsNext]_vars

\* =================================================================== claims
Created(j) == pc[j] # "unborn"
Finished(j) == pc[j] \in {"instant", "done"}

\* C1: every job created by generate_video eventually has status 'ready' or
\* 'error', whatever the backend answers, if the background task keeps being
\* scheduled.
C1_EventuallyTerminal ==
    \A j \in JobIds : Created(j) ~> Terminal(job[j].status)

C1_Witness ==
    \E j \in JobIds :
        /\ pc[j] = "done" /\ cause[j] = "saved" /\ job[j].status = "ready"
        /\ job[j].video_url = JobUrl(j)

\* C2: a status only ever changes from 'generating' to 'ready' or 'error'; a
\* terminal status is changed by no step. (A record is created 'generating';
\* on the synchronous path it is 'ready' when generate_video returns.)
C2_StatusMonotonic ==
    [][\A j \in JobIds :
          job'[j].status # job[j].status =>
              \/ job[j].status = "unborn" /\ job'[j].status \in {"generating", "ready"}
              \/ job[j].status = "generating" /\ Terminal(job'[j].status)]_vars

C2_Witness ==
    \E j \in JobIds : job[j].status = "ready" /\ pc[j] = "bill_notes"

\* C3 as stated: in a terminal state, status = 'ready' exactly if the output
\* locator is set.
C3_ReadyIffLocator ==
    \A j \in JobIds :
        Terminal(job[j].status) => (job[j].status = "ready" <=> job[j].video_url # NoUrl)

\* C3 amended: a 'ready' record always has its locator set, and so has every
\* record whose processing is over, 'error' records included: they carry the
\* substitute locator.
C3_LocatorWhenSettled ==
    \A j \in JobIds :
        /\ job[j].status = "ready" => job[j].video_url # NoUrl
        /\ Finished(j) =>
              /\ Terminal(job[j].status)
              /\ job[j].video_url # NoUrl
              /\ job[j].status = "error" => job[j].video_url = MOCK_VIDEO_URL

C3_Witness ==
    \E j \in JobIds :
        pc[j] = "done" /\ job[j].status = "error" /\ job[j].video_url = MOCK_VIDEO_URL

\* C4: the caller of generate_video, calling get_job with the id it was given,
\* eventually gets a record in a terminal state with a locator.
C4_CallerObserves ==
    \A j \in JobIds : <>Created(j) => <>Usable(get_job(j))

\* C5: when no client is obtained, generate_video stores the job 'ready' with
\* the substitute locator and returns that locator, and no step of a
\* background task (so no backend call) is ever taken for the job.
C5_NoClientIsInstant ==
    [][\A j \in JobIds :
          /\ (~Created(j) /\ Created(j)' /\ ~client') =>
                /\ j \in jobs'
                /\ job'[j].status = "ready"
                /\ job'[j].video_url = MOCK_VIDEO_URL
                /\ returned'[j] = MOCK_VIDEO_URL
                /\ pc'[j] = "instant"
          /\ pc[j] = "instant" =>
                /\ pc'[j] = "instant"
                /\ attempts'[j] = <<>>
                /\ polls'[j] = NoPolls
                /\ job'[j] = job[j]]_vars

C5_Witness ==
    \E j \in JobIds :
        pc[j] = "instant" /\ api_key /\ ~client /\ returned[j] = MOCK_VIDEO_URL

\* C6: the candidate loop calls the candidates in list order, each once; only
\* its last call can be one that returned a handle, and that handle is the
\* one polled; if no call returned, every candidate was called.
InListOrder(a) ==
    /\ Len(a) <= Len(veo_models)
    /\ \A i \in 1..Len(a) : a[i].model = veo_models[i]

\* The candidate loop is over and left no operation (its locals are still there).
NoneStarted(j) ==
    \/ pc[j] \in {"bill_url", "bill_status", "bill_notes"}
    \/ pc[j] = "exc_status" /\ cause[j] = "exhausted"

C6_CandidateOrder ==
    \A j \in JobIds :
        LET a == attempts[j]
        IN  /\ InListOrder(a)
            /\ \A i \in 1..(Len(a) - 1) : a[i].raised
            /\ pc[j] = "poll" =>
                  /\ a # <<>>
                  /\ ~a[Len(a)].raised
                  /\ operation[j].some
                  /\ operation[j].model = a[Len(a)].model
            /\ NoneStarted(j) =>
                  /\ ~operation[j].some
                  /\ Len(a) = Len(veo_models)
                  /\ \A i \in 1..Len(a) : a[i].raised

C6_Witness ==
    \E j \in JobIds :
        /\ pc[j] = "poll"
        /\ attempts[j] = <<[model |-> "veo-3.1-generate-preview", raised |-> TRUE],
                           [model |-> "veo-3.0-generate-001", raised |-> TRUE],
                           [model |-> "veo-2.0-generate-001", raised |-> FALSE]>>
        /\ operation[j].model = "veo-2.0-generate-001"

\* C7 as stated: when every candidate raised, the job ends 'error' with the
\* substitute locator and an error message carrying the last raised message.
EndsInExhaustedError(j) ==
    /\ job[j].status = "error"
    /\ job[j].video_url = MOCK_VIDEO_URL
    /\ job[j].error = ExhaustedMsg(lastRaised[j])
    /\ Contains(job[j].error, lastRaised[j])

C7_AllRaiseEndsError ==
    \A j \in JobIds : (pc[j] = "done" /\ lastRaised[j] # None) => EndsInExhaustedError(j)

\* C7 amended: when every candidate raised and the last raised message does
\* not contain "billing enabled" in any letter case, the job ends 'error' with
\* the substitute locator and an error message carrying that last message.
C7_AllRaiseNoBillingEndsError ==
    \A j \in JobIds :
        (/\ pc[j] = "done"
         /\ lastRaised[j] # None
         /\ ~Contains(lower(lastRaised[j]), BILLING_ENABLED)) =>
            EndsInExhaustedError(j)

C7_Witness ==
    \E j \in JobIds :
        pc[j] = "done" /\ lastRaised[j] = NearBillingMsg /\ job[j].status = "error"

\* C8: an operation that is still not done after 42 refreshes, 10 seconds of
\* sleep before each, makes the job end 'error' with a message that says
\* "timed out" and the substitute locator; the poll loop gives up exactly then
\* and, if the task keeps being scheduled, the job does reach 'error'.
C8_Budget ==
    \A j \in JobIds :
        /\ (pc[j] = "exc_status" /\ polls[j].refreshes = 42 /\ ~operation[j].done
                /\ cause[j] # "poll_raised") =>
              /\ cause[j] = "timeout"
              /\ exc[j] = TimedOutMsg
        /\ (pc[j] = "exc_status" /\ cause[j] = "timeout") =>
              /\ polls[j].refreshes = 42
              /\ polls[j].slept = 420
        /\ (pc[j] = "done" /\ cause[j] = "timeout") =>
              /\ job[j].status = "error"
              /\ Contains(job[j].error, <<"timed", "out">>)
              /\ job[j].video_url = MOCK_VIDEO_URL
        /\ cause[j] = "timeout" => pc[j] # "poll"

C8_PollBudgetTimeout ==
    /\ []C8_Budget
    /\ \A j \in JobIds :
          (pc[j] = "exc_status" /\ cause[j] = "timeout") ~>
              (job[j].status = "error" /\ job[j].video_url = MOCK_VIDEO_URL)

C8_Witness ==
    \E j \in JobIds : pc[j] = "done" /\ cause[j] = "timeout" /\ job[j].status = "error"

\* C9: an operation that is done with a response holding no videos makes the
\* job end 'error' with the substitute locator, and no video_path is ever set
\* for it nor a file saved.
C9_NoVideosEndsError ==
    \A j \in JobIds :
        /\ (operation[j].done /\ operation[j].response = "empty") =>
              /\ pc[j] = "exc_status"
              /\ cause[j] = "no_videos"
              /\ exc[j] = NoVideosMsg
        /\ cause[j] = "no_videos" =>
              /\ job[j].video_path = NoPath
              /\ OutPath(j) \notin files
              /\ job[j].status # "ready"
        /\ (pc[j] = "done" /\ cause[j] = "no_videos") =>
              /\ job[j].status = "error"
              /\ job[j].video_url = MOCK_VIDEO_URL

C9_Witness ==
    \E j \in JobIds : pc[j] = "done" /\ cause[j] = "no_videos" /\ job[j].status = "error"

\* C10: when the failure the candidate loop ends with (the last raised
\* message) says "Billing Enabled", the job ends 'ready' with the substitute
\* locator and the explanatory note; it is never 'error' and its error field
\* stays unset.
C10_BillingEndsReady ==
    \A j \in JobIds :
        (lastRaised[j] # None /\ Contains(lower(lastRaised[j]), BILLING_ENABLED)) =>
            /\ job[j].status # "error"
            /\ job[j].error = None
            /\ pc[j] = "done" =>
                  /\ job[j].status = "ready"
                  /\ job[j].video_url = MOCK_VIDEO_URL
                  /\ job[j].notes = BillingNote

C10_Witness ==
    \E j \in JobIds :
        pc[j] = "done" /\ lastRaised[j] = BillingMsg /\ job[j].status = "ready"

\* C11 as stated: an exception raised by any backend or storage call of the
\* task (starting generation, refreshing, downloading, saving) makes the job
\* end 'error' with a message recorded and the substitute locator.
Raised(j) ==
    startRaised[j] \/ cause[j] \in {"poll_raised", "download_raised", "save_raised"}

C11_AnyRaiseEndsError ==
    \A j \in JobIds :
        (pc[j] = "done" /\ Raised(j)) =>
            /\ job[j].status = "error"
            /\ job[j].error # None
            /\ job[j].video_url = MOCK_VIDEO_URL

\* C11 amended: an exception raised while refreshing, downloading or saving
\* makes the job end 'error' with that exception's message and the substitute
\* locator; an exception raised by a generation call is caught by the
\* candidate loop and the job still ends in a terminal state with a locator
\* ('error' only if every candidate raised and the last message is not the
\* billing one); an exception is only ever in flight inside the handler and
\* none is left when the task is over.
RaisedMsg(c) ==
    CASE c = "poll_raised" -> PollErrMsg
      [] c = "download_raised" -> DownloadErrMsg
      [] c = "save_raised" -> SaveErrMsg
      [] OTHER -> None

C11_RaiseIsCaught ==
    \A j \in JobIds :
        /\ (pc[j] = "done" /\ RaisedMsg(cause[j]) # None) =>
              /\ job[j].status = "error"
              /\ job[j].error = RaisedMsg(cause[j])
              /\ job[j].video_url = MOCK_VIDEO_URL
        /\ (pc[j] = "done" /\ startRaised[j]) =>
              /\ Terminal(job[j].status)
              /\ job[j].video_url # NoUrl
              /\ job[j].status = "error" <=> cause[j] # "saved" /\ cause[j] # "billing"
        /\ exc[j] # None => pc[j] \in {"exc_status", "exc_error", "exc_url"}

C11_Witness ==
    \E j \in JobIds :
        /\ pc[j] = "done" /\ cause[j] = "save_raised"
        /\ job[j].error = SaveErrMsg /\ job[j].status = "error"

C14_SavedBeforeReady ==
    \A j \in JobIds :
        /\ (job[j].status = "ready" /\ job[j].video_url \notin {NoUrl, MOCK_VIDEO_URL}) =>
              /\ job[j].video_url = [kind |-> "api", id |-> j]
              /\ job[j].video_path = j
              /\ cause[j] = "saved"
        /\ pc[j] \in {"set_path", "set_url", "set_status"} => cause[j] = "saved"
        /\ (pc[j] = "set_path" /\ job[j].video_path = NoPath) => job[j].status = "generating"

C14_Witness ==
    \E j \in JobIds :
        /\ job[j].status = "ready" /\ job[j].video_url = JobUrl(j)
        /\ job[j].video_path = OutPath(j) /\ OutPath(j) \in files /\ j \in jobs

\* C15: get_video_path returns a path only for a record whose status is
\* 'ready' and whose file exists; in every other state it returns None.
C15_PathOnlyWhenReady ==
    \A j \in JobIds :
        get_video_path(j) # NoPath =>
            /\ get_job(j).status = "ready"
            /\ get_video_path(j) \in files

\* C16: a record that get_job returns with status 'generating' has neither a
\* locator nor a video_path.
C16_GeneratingHasNoLocator ==
    \A j \in jobs :
        get_job(j).status = "generating" =>
            /\ get_job(j).video_url = NoUrl
            /\ get_job(j).video_path = NoPath

\* C17: once a record has a terminal status, no step writes any of its fields.
C17_TerminalIsImmutable ==
    [][\A j \in JobIds : Terminal(job[j].status) => job'[j] = job[j]]_vars

\* C18: after cleanup_old_jobs removed a job's record from the store, the
\* job's task writes the record no more and saves no file for it.
Evicted(j) == Created(j) /\ j \notin jobs

C18_TaskEndsWithEntry ==
    [][\A j \in JobIds :
          Evicted(j) =>
              /\ job'[j] = job[j]
              /\ OutPath(j) \in files' => OutPath(j) \in files]_vars

C20_SubmitDoesNotBlock ==
    [][\A j \in JobIds :
          (~Created(j) /\ Created(j)' /\ client') =>
              /\ returned'[j] = NoUrl
              /\ j \in jobs'
              /\ job'[j] = VeoJob(now)
              /\ pc'[j] = "scheduled"
              /\ attempts'[j] = <<>>
              /\ ~operation'[j].some
              /\ polls'[j] = NoPolls
              /\ files' = files]_vars

C20_Witness ==
    \E j \in JobIds :
        /\ pc[j] = "scheduled" /\ returned[j] = NoUrl /\ j \in jobs
        /\ job[j].status = "generating" /\ attempts[j] = <<>>

\* C21: for an id that is not in the store, never given out or evicted,
\* get_job and get_video_path return None (they are reads: they raise nothing
\* and change nothing), whatever the evicted record and the disk hold.
C21_UnknownIdIsAbsent ==
    \A j \in JobIds :
        j \notin jobs =>
            /\ get_job(j) = NoJob
            /\ get_video_path(j) = NoPath

C21_Witness ==
    \E j \in JobIds :
        /\ Evicted(j) /\ job[j].video_path = OutPath(j) /\ OutPath(j) \in files
        /\ get_video_path(j) = NoPath /\ get_job(j) = NoJob

\* C24: the poll loop makes at most 42 refreshes and sleeps 10 seconds once
\* before each; it makes none once a handle reports done (none at all if the
\* handle it starts with is done), otherwise it refreshes until the answer is
\* not 'pending' or the 42nd refresh is made; and an operation that reports
\* done at the 42nd refresh is completed, not timed out.
C24_PollLoopBudget ==
    /\ \A run \in PollTable :
          LET r == run.result
          IN  /\ r.refreshes <= 42
              /\ r.slept = 10 * r.refreshes
              /\ run.op.done => r.refreshes = 0 /\ r.op = run.op
              /\ ~run.op.done => r.refreshes = IF run.doneAt <= 42 THEN run.doneAt ELSE 42
              /\ (~run.op.done /\ run.doneAt <= 42 /\ ~run.answer.raises) =>
                    /\ r.op.done
                    /\ r.op.response = run.answer.hs[2]
    /\ \A j \in JobIds :
          /\ polls[j].refreshes <= 42
          /\ polls[j].slept = 10 * polls[j].refreshes
          /\ pc[j] = "save" => operation[j].done /\ operation[j].response = "videos"
          /\ (/\ polls[j].refreshes = 42
              /\ operation[j].done
              /\ operation[j].response = "videos") => pc[j] = "save"

C24_Witness ==
    \E j \in JobIds :
        pc[j] = "save" /\ polls[j].refreshes = 42 /\ polls[j].slept = 420

\* C25: if no candidate returned and at least one candidate raised a
\* message with "billing enabled" (in any letter case), whichever its place in
\* the list, the job ends 'ready' with the substitute locator.
C25_AnyBillingEndsReady ==
    \A j \in JobIds :
        (pc[j] = "done" /\ anyBilling[j]) =>
            /\ job[j].status = "ready"
            /\ job[j].video_url = MOCK_VIDEO_URL

\* C26: a job's error message says "timed out" only if the operation never
\* reported done within the 42 refreshes; an operation that is done without a
\* response is reported with another message.
C26_TimeoutOnlyIfNeverDone ==
    \A j \in JobIds :
        (pc[j] = "done" /\ job[j].error # None /\ Contains(job[j].error, <<"timed", "out">>)) =>
            cause[j] = "timeout"

\* C22: every value analyze_image returns has risk_score and
\* sustainability_score within 0..100, whatever integers the remote analysis
\* wrote.
C22_ScoresInRange ==
    analysis.ref # "none" =>
        /\ Fields(analysis).risk_score \in 0..100
        /\ Fields(analysis).sustainability_score \in 0..100

\* C23: analyze_image returns a value on every path, and the value has
\* is_mock = TRUE exactly when it did not come from a model that responded
\* with a response that was parsed (no client, no model responding, a
\* response that does not parse): it is then the substitute analytics.
C23_MockUnlessGenuine ==
    analysis.ref # "none" =>
        /\ analysis.ref \in {"own", "MOCK_ANALYTICS"}
        /\ Fields(analysis).is_mock <=> ~genuine
        /\ ~genuine => analysis.ref = "MOCK_ANALYTICS"
        /\ genuine => analysis.ref = "own"

C23_Witness ==
    /\ client
    /\ ~genuine
    /\ analysis.ref = "MOCK_ANALYTICS"
    /\ Fields(analysis).is_mock
    /\ mock_notes = ErrorNotes(JsonErrMsg)

\* C27: the analytics a job captured at generate_video keep their field
\* values, notes included, through every later analyze_image and
\* generate_video call.
C27_CapturedAnalyticsFixed ==
    [][\A j \in jobs : Fields(analytics[j])' = Fields(analytics[j])]_vars

====
